---- MODULE Spec2Model ----
(***************************************************************************)
(* A model of corona/epirisk.py: the EpiriskQuery request builder, the     *)
(* country-name canonicalization and the risk/case joiner query_epirisk.   *)
(*                                                                         *)
(* Python dicts keep insertion order and build_query's stable sort depends *)
(* on it, so a dict is modelled as a sequence of <<key, value>> pairs with *)
(* distinct keys.                                                          *)
(***************************************************************************)
EXTENDS Integers, Sequences, FiniteSets, TLC

VARIABLES
    geolevel,   \* EpiriskQuery.geolevel
    mute,       \* EpiriskQuery.mute
    cases,      \* EpiriskQuery.cases, an ordered dict
    last,       \* the last call on the query: its arguments and its outcome
    names,      \* the Series of country names given to adjust_country_names
    applied,    \* how many times adjust_country_names was applied to it
    series,     \* the Series after these applications
    dist,       \* the parsed risk response's distribution rows (label, risk)
    latest,     \* the latest raw case rows (Country/Region, Confirmed)
    table,      \* the data frames query_epirisk computed from them, once done
    bulk,       \* from_cases: its rows, how many it has added, how it ended
    response,   \* the JSON of a risk response
    parsed,     \* what ConnectionsRisk made of it, once parsed
    api_write,  \* SpreadsheetsHandler.api_write
    spreadsheet \* the remote spreadsheet and the write actions of the last save

vars == <<geolevel, mute, cases, last, names, applied, series, dist, latest, table,
          bulk, response, parsed, api_write, spreadsheet>>

None == "None"

\* query_epirisk has not run
NoTable == [done |-> FALSE]

\* from_cases is not running, no response was received, no handler made
NoBulk == [rows |-> <<>>, i |-> 0, status |-> "idle"]

NoResponse == [keys |-> {}]

NoParsed == [done |-> FALSE]

NoSpreadsheet == [worksheets |-> <<>>, writes |-> {}]

IdleQuery == geolevel = "country" /\ mute = TRUE /\ cases = <<>>

IdleNames == names = <<>> /\ applied = 0 /\ series = <<>>

IdleJoin == dist = << >> /\ latest = << >> /\ table = NoTable

IdleBulk == bulk = NoBulk

IdleParse == response = NoResponse /\ parsed = NoParsed

IdleSheets == api_write = TRUE /\ spreadsheet = NoSpreadsheet

(***************************************************************************)
(* Bounds of the model.                                                    *)
(***************************************************************************)
\* the largest case count given to a set
MaxCount == 2

\* the longest Series of names given to adjust_country_names
MaxNames == 2

\* how many times adjust_country_names is applied in a row
MaxApplied == 2

\* the most rows of the risk distribution and of the latest case data
MaxDistRows == 3

MaxCaseRows == 2

\* the most rows of the data frame given to from_cases
MaxRows == 3

\* the most sources of a risk response's connections, the most destinations
\* of a source and the most entries of its distribution
MaxSources == 1

MaxDests == 2

MaxEntries == 2

\* the most worksheets of the remote spreadsheet and the most data frames
MaxWorksheets == 4

MaxFrames == 2

(***************************************************************************)
(* Ordered dicts.                                                          *)
(***************************************************************************)
Keys(d) == {d[i][1] : i \in 1..Len(d)}

Has(d, k) == \E i \in 1..Len(d) : d[i][1] = k

\* dict.get(k, default)
Get(d, k, default) ==
    IF Has(d, k) THEN d[CHOOSE i \in 1..Len(d) : d[i][1] = k][2] ELSE default

\* d[k] = v: an existing key keeps its position, a new one goes last
Put(d, k, v) ==
    IF Has(d, k)
    THEN [i \in 1..Len(d) |-> IF d[i][1] = k THEN <<k, v>> ELSE d[i]]
    ELSE Append(d, <<k, v>>)

\* del d[k]
Del(d, k) == SelectSeq(d, LAMBDA e : e[1] # k)

(***************************************************************************)
(* The location registry. The bundled dataset epirisk_getinitdata.json is  *)
(* read at import; the model keeps a few of its entries. Id 53 is the one  *)
(* the source names, the other ids stand for the dataset's.                *)
(***************************************************************************)
countries ==
    [l \in {"China", "Italy", "San Marino", "Cyprus, Northern"} |->
        CASE l = "China" -> 44
          [] l = "Italy" -> 106
          [] l = "San Marino" -> 187
          [] l = "Cyprus, Northern" -> 53]

cities == [l \in {"Wuhan"} |-> 1036]

locations == [g \in {"basin", "country"} |-> IF g = "basin" THEN cities ELSE countries]

\* A key given to the query is a str (a label) or an int (an id): a record
\* with the label, or None and the id. "Atlantis" is in no table.
StrKey(l) == [label |-> l, id |-> 0]

IntKey(n) == [label |-> None, id |-> n]

Labels == DOMAIN countries \cup DOMAIN cities \cup {"Atlantis"}

QueryKeys == {StrKey(l) : l \in Labels} \cup {IntKey(53)}

\* isinstance(key, str)
IsStr(key) == key.label # None

(***************************************************************************)
(* EpiriskQuery                                                            *)
(***************************************************************************)
NoCall == [op |-> "init", key |-> IntKey(0), value |-> 0, raised |-> None,
           ret |-> None, changed |-> FALSE]

\* __setitem__: the case map after self[key] = value, and what was raised
SetItemRaised(key, value) ==
    IF IsStr(key) /\ key.label \notin DOMAIN locations[geolevel] /\ ~mute
    THEN "KeyError" ELSE None

\* a __setitem__ that stores a count of 0 instead of deleting the key
SetItemCasesKeepZero(key, value) ==
    IF IsStr(key) /\ key.label \notin DOMAIN locations[geolevel]
    THEN cases
    ELSE LET id == IF IsStr(key) THEN locations[geolevel][key.label] ELSE key.id
         IN  Put(cases, id, value)

\* a __setitem__ that resolves an unknown label to the id -1 and stores it
SetItemCasesUnknownStored(key, value) ==
    LET id == IF IsStr(key)
              THEN (IF key.label \in DOMAIN locations[geolevel]
                    THEN locations[geolevel][key.label] ELSE -1)
              ELSE key.id
    IN  IF value = 0
        THEN (IF Has(cases, id) THEN Del(cases, id) ELSE cases)
        ELSE Put(cases, id, value)

SetItemCases(key, value) ==
    IF IsStr(key) /\ key.label \notin DOMAIN locations[geolevel]
    THEN cases
    ELSE LET id == IF IsStr(key) THEN locations[geolevel][key.label] ELSE key.id
         IN  IF value = 0
             THEN (IF Has(cases, id) THEN Del(cases, id) ELSE cases)
             ELSE Put(cases, id, value)

SetItem(key, value) ==
    /\ cases' = SetItemCases(key, value)
    /\ last' = [op |-> "set", key |-> key, value |-> value,
                raised |-> SetItemRaised(key, value), ret |-> None,
                changed |-> (SetItemCases(key, value) # cases)]
    /\ UNCHANGED <<geolevel, mute, names, applied, series, dist, latest, table,
                 bulk, response, parsed, api_write, spreadsheet>>

\* __getitem__
GetItemRet(item) ==
    LET id == IF IsStr(item)
              THEN (IF item.label \in DOMAIN locations[geolevel]
                    THEN locations[geolevel][item.label] ELSE -1)
              ELSE item.id
    IN  Get(cases, id, 0)

GetItem(item) ==
    /\ last' = [op |-> "get", key |-> item, value |-> 0, raised |-> None,
                ret |-> GetItemRet(item), changed |-> FALSE]
    /\ UNCHANGED <<geolevel, mute, cases, names, applied, series, dist, latest, table,
                 bulk, response, parsed, api_write, spreadsheet>>

\* sorted(d.items(), key=lambda t: t[1]): ascending by count and stable
RECURSIVE InsertByCount(_, _)
InsertByCount(s, e) ==
    IF s = <<>> THEN <<e>>
    ELSE IF s[Len(s)][2] <= e[2] THEN Append(s, e)
    ELSE Append(InsertByCount(SubSeq(s, 1, Len(s) - 1), e), s[Len(s)])

RECURSIVE SortedByCount(_)
SortedByCount(d) ==
    IF d = <<>> THEN <<>>
    ELSE InsertByCount(SortedByCount(SubSeq(d, 1, Len(d) - 1)), d[Len(d)])

\* s[-n:] for n > 0
LastN(s, n) == IF Len(s) <= n THEN s ELSE SubSeq(s, Len(s) - n + 1, Len(s))

\* the cap on the case entries of a request; 117 in the source, scaled down
\* so that the model's case maps exceed it
KEEP_TOP_CASES_COUNT == 2

\* the default period and month of __init__
period == 10

month == 1

_months == <<"Jan", "Feb", "Mar", "Apr", "May", "Jun", "Jul", "Aug", "Sep",
             "Oct", "Nov", "Dec">>

\* a truncation that keeps the head of the sorted entries: s[:n]
TopCasesHead(d) ==
    IF Len(d) <= KEEP_TOP_CASES_COUNT THEN SortedByCount(d)
    ELSE SubSeq(SortedByCount(d), 1, KEEP_TOP_CASES_COUNT)

\* build_query: the truncated case map
TopCases(d) == LastN(SortedByCount(d), KEEP_TOP_CASES_COUNT)

\* only Northern Cyprus is zeroed
ZeroNorthernCyprus(d) == Put(d, 53, 0)

\* build_query: the non-countries get a count of 0 (Northern Cyprus, Aland)
ZeroNonCountries(d) == Put(Put(d, 53, 0), 4, 0)

\* build_query: the request
BuildQuery ==
    LET limited_cases == ZeroNonCountries(TopCases(cases))
    IN  [geolevel |-> "country",
         period |-> period,
         sources |-> [i \in 1..Len(limited_cases) |-> limited_cases[i][1]],
         cases |-> limited_cases,
         month |-> _months[month],
         travel_level |-> 1]

\* a build_query that zeroes the non-countries in self.cases itself
BuildQueryCasesInPlace == ZeroNonCountries(cases)

\* build_query: self.cases afterwards; sorted() and dict() make new objects
\* and the two zeroes are written to the new dict
BuildQueryCases == cases

build_query ==
    /\ cases' = BuildQueryCases
    /\ last' = [op |-> "build", key |-> IntKey(0), value |-> 0, raised |-> None,
                ret |-> BuildQuery, changed |-> (BuildQueryCases # cases)]
    /\ UNCHANGED <<geolevel, mute, names, applied, series, dist, latest, table,
                 bulk, response, parsed, api_write, spreadsheet>>

InitQuery ==
    /\ geolevel \in {"country", "basin"}
    /\ mute \in BOOLEAN
    /\ cases = <<>>
    /\ last = NoCall
    /\ names = <<>> /\ applied = 0 /\ series = <<>>
    /\ dist = << >> /\ latest = << >> /\ table = NoTable
    /\ IdleBulk /\ IdleParse /\ IdleSheets

Next ==
    \/ \E key \in QueryKeys, value \in -1..MaxCount : SetItem(key, value)
    \/ \E item \in QueryKeys : GetItem(item)
    \/ build_query

Spec == InitQuery /\ [][Next]_vars

(***************************************************************************)
(* EpiriskQuery.from_cases: a query of geolevel 'country' is made and, row *)
(* by row, epirisk[country] += count is run on it.                         *)
(***************************************************************************)
\* the countries and counts of the rows; "Atlantis" is no label
BulkCountries == {"China", "Italy", "Atlantis"}

BulkRows == UNION {[1..n -> BulkCountries \X (0..MaxCount)] : n \in 0..MaxRows}

\* an augmented assignment that stores the row's count alone
AddedValueReplace(country, count) == count

\* epirisk[country] += count: the value given to __setitem__
AddedValue(country, count) == GetItemRet(StrKey(country)) + count

\* one turn of the loop; a KeyError of __setitem__ ends from_cases
from_cases_row ==
    /\ bulk.status = "run" /\ bulk.i < Len(bulk.rows)
    /\ LET country == bulk.rows[bulk.i + 1][1]
           count == bulk.rows[bulk.i + 1][2]
           key == StrKey(country)
           value == AddedValue(country, count)
       IN  /\ cases' = SetItemCases(key, value)
           /\ last' = [op |-> "set", key |-> key, value |-> value,
                       raised |-> SetItemRaised(key, value), ret |-> None,
                       changed |-> (SetItemCases(key, value) # cases)]
           /\ bulk' = IF SetItemRaised(key, value) # None
                      THEN [bulk EXCEPT !.status = "raised"]
                      ELSE [bulk EXCEPT !.i = @ + 1]
    /\ UNCHANGED <<geolevel, mute, names, applied, series, dist, latest, table,
                   response, parsed, api_write, spreadsheet>>

\* return epirisk
from_cases_return ==
    /\ bulk.status = "run" /\ bulk.i = Len(bulk.rows)
    /\ bulk' = [bulk EXCEPT !.status = "done"]
    /\ UNCHANGED <<geolevel, mute, cases, last, names, applied, series, dist, latest,
                   table, response, parsed, api_write, spreadsheet>>

InitBulk ==
    /\ geolevel = "country"
    /\ mute \in BOOLEAN
    /\ cases = <<>>
    /\ last = NoCall
    /\ bulk \in {[rows |-> r, i |-> 0, status |-> "run"] : r \in BulkRows}
    /\ IdleNames /\ IdleJoin /\ IdleParse /\ IdleSheets

NextBulk == from_cases_row \/ from_cases_return

SpecBulk == InitBulk /\ [][NextBulk]_vars

(***************************************************************************)
(* ConnectionsRisk: the parser of a risk response. A JSON object is a      *)
(* function of its keys; a key is a string that int() accepts, kept as the *)
(* number, or one it rejects; a value is a number or a string that is no   *)
(* number.                                                                 *)
(***************************************************************************)
JKey(n) == [int |-> TRUE, v |-> n]

BadKey == [int |-> FALSE, v |-> 0]

JNum(n) == [num |-> TRUE, v |-> n]

BadValue == [num |-> FALSE, v |-> 0]

\* the ids of a response: two of the registry, one that is not in it
JsonKeys == {JKey(44), JKey(106), JKey(999), BadKey}

JsonValues == {JNum(1), JNum(2), BadValue}

DestLists == UNION {[1..n -> {44, 106}] : n \in 0..MaxDests}

JsonObjects(K, V, n) ==
    UNION {[S -> V] : S \in {T \in SUBSET K : Cardinality(T) <= n}}

RiskResponses ==
    {[keys |-> ks,
      connections |-> c,
      distribution |-> d,
      residual |-> res] :
        ks \in SUBSET {"connections", "distribution", "residual"},
        c \in JsonObjects(JsonKeys \ {JKey(106)}, DestLists, MaxSources),
        d \in JsonObjects(JsonKeys, JsonValues, MaxEntries),
        res \in JsonValues}

\* a response without a key has nothing under it
WellFormed(json) ==
    /\ "connections" \notin json.keys => json.connections = << >>
    /\ "distribution" \notin json.keys => json.distribution = << >>
    /\ "residual" \notin json.keys => json.residual = JNum(1)

countries_by_id ==
    [id \in {countries[l] : l \in DOMAIN countries} |->
        CHOOSE l \in DOMAIN countries : countries[l] = id]

Range(f) == {f[x] : x \in DOMAIN f}

RECURSIVE SeqOf(_)
SeqOf(S) ==
    IF S = {} THEN <<>>
    ELSE LET x == CHOOSE x \in S : TRUE IN <<x>> \o SeqOf(S \ {x})

\* __init__: what it raises; json[...] raises KeyError, int(k) ValueError
ConnectionsRiskRaised(json) ==
    IF "connections" \notin json.keys THEN "KeyError"
    ELSE IF \E k \in DOMAIN json.connections : ~k.int THEN "ValueError"
    ELSE IF "distribution" \notin json.keys THEN "KeyError"
    ELSE IF \E k \in DOMAIN json.distribution : ~k.int THEN "ValueError"
    ELSE IF "residual" \notin json.keys THEN "KeyError"
    ELSE None

\* __init__: {int(k): set(v)}, {int(k): v} and the residual as it is
ConnectionsRiskFields(json) ==
    [connections |-> [id \in {k.v : k \in DOMAIN json.connections} |->
                        Range(json.connections[JKey(id)])],
     distribution |-> [id \in {k.v : k \in DOMAIN json.distribution} |->
                        json.distribution[JKey(id)]],
     residual |-> json.residual]

\* a connections_df with the first destination of a source only
ConnectionsDfFirst(connections) ==
    LET pairs == {<<s, CHOOSE d \in connections[s] : TRUE>> :
                     s \in {t \in DOMAIN connections : connections[t] # {}}}
        ids == (DOMAIN connections) \cup (UNION Range(connections))
    IN  IF ids \subseteq DOMAIN countries_by_id
        THEN [raised |-> None,
              rows |-> SeqOf({<<p[1], countries_by_id[p[1]], p[2], countries_by_id[p[2]]>> :
                               p \in pairs})]
        ELSE [raised |-> "KeyError", rows |-> <<>>]

\* connections_df: a row per source and destination; countries_by_id[...]
\* raises KeyError for an id that is not in the registry
ConnectionsDf(connections) ==
    LET pairs == {p \in (DOMAIN connections) \X (UNION Range(connections)) :
                     p[2] \in connections[p[1]]}
        ids == (DOMAIN connections) \cup (UNION Range(connections))
    IN  IF ids \subseteq DOMAIN countries_by_id
        THEN [raised |-> None,
              rows |-> SeqOf({<<p[1], countries_by_id[p[1]], p[2], countries_by_id[p[2]]>> :
                               p \in pairs})]
        ELSE [raised |-> "KeyError", rows |-> <<>>]

\* distribution_df: a row per entry
DistributionDf(distribution) ==
    IF DOMAIN distribution \subseteq DOMAIN countries_by_id
    THEN [raised |-> None,
          rows |-> SeqOf({<<id, countries_by_id[id], distribution[id]>> :
                           id \in DOMAIN distribution})]
    ELSE [raised |-> "KeyError", rows |-> <<>>]

\* ConnectionsRisk(r.json()) and, of the object made, the two data frames
parse_risk ==
    /\ ~parsed.done
    /\ parsed' =
          IF ConnectionsRiskRaised(response) # None
          THEN [done |-> TRUE, raised |-> ConnectionsRiskRaised(response), built |-> FALSE]
          ELSE LET risks == ConnectionsRiskFields(response)
               IN  [done |-> TRUE, raised |-> None, built |-> TRUE, risks |-> risks,
                    connections_df |-> ConnectionsDf(risks.connections),
                    distribution_df |-> DistributionDf(risks.distribution)]
    /\ UNCHANGED <<geolevel, mute, cases, last, names, applied, series, dist, latest,
                   table, bulk, response, api_write, spreadsheet>>

InitParse ==
    /\ response \in {json \in RiskResponses : WellFormed(json)}
    /\ parsed = NoParsed
    /\ IdleQuery /\ last = NoCall
    /\ IdleNames /\ IdleJoin /\ IdleBulk /\ IdleSheets

NextParse == parse_risk

SpecParse == InitParse /\ [][NextParse]_vars

(***************************************************************************)
(* SpreadsheetsHandler: the remote spreadsheet is its worksheets, each the *)
(* data frame written to it (0 when empty), and the write actions the      *)
(* handler has executed on it.                                             *)
(***************************************************************************)
Frames == 1..MaxFrames

Empty == 0

\* save_df_to_spreadsheet(df, key, worksheet_no, new_worksheet=new_worksheet);
\* worksheets()[worksheet_no] raises IndexError out of range
save_df_to_spreadsheet(df, worksheet_no, new_worksheet) ==
    /\ new_worksheet => Len(spreadsheet.worksheets) < MaxWorksheets
    /\ spreadsheet' =
          IF ~new_worksheet /\ worksheet_no >= Len(spreadsheet.worksheets)
          THEN [spreadsheet EXCEPT !.raised = "IndexError"]
          ELSE LET sheets == IF new_worksheet
                             THEN Append(spreadsheet.worksheets, Empty)
                             ELSE spreadsheet.worksheets
                   worksheet == IF new_worksheet THEN Len(sheets)
                                ELSE worksheet_no + 1
               IN  [worksheets |-> IF api_write
                                   THEN [sheets EXCEPT ![worksheet] = df]
                                   ELSE sheets,
                    writes |-> spreadsheet.writes
                                 \cup (IF new_worksheet THEN {"add_worksheet"} ELSE {})
                                 \cup (IF api_write THEN {"clear", "update_cells"} ELSE {}),
                    raised |-> None]
    /\ UNCHANGED <<geolevel, mute, cases, last, names, applied, series, dist, latest,
                   table, bulk, response, parsed, api_write>>

InitSheets ==
    /\ api_write \in BOOLEAN
    /\ spreadsheet \in {[worksheets |-> <<w>>, writes |-> {}, raised |-> None] :
                           w \in {Empty} \cup Frames}
    /\ IdleQuery /\ last = NoCall
    /\ IdleNames /\ IdleJoin /\ IdleBulk /\ IdleParse

NextSheets ==
    \E df \in Frames, worksheet_no \in 0..MaxWorksheets, new_worksheet \in BOOLEAN :
        save_df_to_spreadsheet(df, worksheet_no, new_worksheet)

SpecSheets == InitSheets /\ [][NextSheets]_vars
(***************************************************************************)
(* adjust_country_names                                                    *)
(***************************************************************************)
\* a table in which one override leads to a name that is overridden again
mappingChained ==
    [n \in {"Hong Kong", "Macau", "Mainland China", "South Korea", "Korea, South"} |->
        CASE n = "Hong Kong" -> "Mainland China"
          [] n = "Macau" -> "China"
          [] n = "Mainland China" -> "China"
          [] n = "South Korea" -> "Korea, South"
          [] n = "Korea, South" -> "Korea, Rep."]

\* the override table, JHU CSSE name to Epirisk label
mapping ==
    [n \in {"Hong Kong", "Macau", "Mainland China", "South Korea", "US", "Russia",
             "UK", "Egypt", "North Macedonia", "Faroe Islands",
             "Republic of Ireland", "Saint Barthelemy", "Slovakia", "Czechia",
             "Taiwan*", "Korea, South", "Cote d'Ivoire", "Congo (Kinshasa)",
             "Cyprus, Northern"} |->
        CASE n = "Hong Kong" -> "China"
          [] n = "Macau" -> "China"
          [] n = "Mainland China" -> "China"
          [] n = "South Korea" -> "Korea, Rep."
          [] n = "US" -> "United States of America"
          [] n = "Russia" -> "Russian Federation"
          [] n = "UK" -> "United Kingdom"
          [] n = "Egypt" -> "Egypt, Arab Rep."
          [] n = "North Macedonia" -> "Macedonia"
          [] n = "Faroe Islands" -> "Faeroe Islands"
          [] n = "Republic of Ireland" -> "Ireland"
          [] n = "Saint Barthelemy" -> "St-Barthélemy"
          [] n = "Slovakia" -> "Slovak Republic"
          [] n = "Czechia" -> "Czech Republic"
          [] n = "Taiwan*" -> "Taiwan"
          [] n = "Korea, South" -> "Korea, Rep."
          [] n = "Cote d'Ivoire" -> "Côte d'Ivoire"
          [] n = "Congo (Kinshasa)" -> "Congo, Dem. Rep."
          [] n = "Cyprus, Northern" -> "Cyprus"]

\* Series.replace(mapping) on one value: an exact match is replaced
Replace(n) == IF n \in DOMAIN mapping THEN mapping[n] ELSE n

AdjustCountryNames(country_names) ==
    [i \in 1..Len(country_names) |-> Replace(country_names[i])]

\* the names a Series holds: the raw names of the table, their targets and
\* names the table does not mention
CountryNames ==
    DOMAIN mapping \cup {mapping[n] : n \in DOMAIN mapping} \cup {"Italy", "Poland"}

adjust_country_names ==
    /\ applied < MaxApplied
    /\ series' = AdjustCountryNames(series)
    /\ applied' = applied + 1
    /\ UNCHANGED <<geolevel, mute, cases, last, names, dist, latest, table,
                 bulk, response, parsed, api_write, spreadsheet>>

InitNames ==
    /\ names \in UNION {[1..n -> CountryNames] : n \in 1..MaxNames}
    /\ series = names
    /\ applied = 0
    /\ geolevel = "country" /\ mute = TRUE /\ cases = <<>> /\ last = NoCall
    /\ dist = << >> /\ latest = << >> /\ table = NoTable
    /\ IdleBulk /\ IdleParse /\ IdleSheets

NextNames == adjust_country_names

SpecNames == InitNames /\ [][NextNames]_vars

(***************************************************************************)
(* query_epirisk: the risk/case joiner. A data frame is a sequence of rows *)
(* (records). A risk is a multiple of 1/RiskOne. A per-million ratio      *)
(* Confirmed / Population * 1000000 is kept as an exact fraction           *)
(* <<numerator, denominator>>, reduced by 1000 to stay within TLC's 32-bit *)
(* integers (the populations of the model are multiples of 1000); NaN is a *)
(* missing value.                                                          *)
(***************************************************************************)
NaN == -1

\* the risk 1.0
RiskOne == 4

Risks == 1..RiskOne

\* the labels of the risk distribution and the names of the case data
DistLabels == {"China", "Italy", "Cyprus", "Cyprus, Northern"}

CaseNames == {"Mainland China", "Hong Kong", "Italy", "Cyprus"}

ConfirmedCounts == {0, 1, 5, 50, 200, 2501}

\* the lexicographic order of the names that a merge sorts its keys by
NameOrder == <<"China", "Cyprus", "Cyprus, Northern", "Finland", "Italy", "UK">>

\* the population sheet: Country Code to Population
population_df == [c \in {"CHN", "ITA"} |-> IF c = "CHN" THEN 1000000 ELSE 500000]

\* country_converter's convert(names, to='ISO3', not_found=None): a name it
\* does not find is passed through
coco_convert(name) ==
    CASE name = "China" -> "CHN"
      [] name = "Italy" -> "ITA"
      [] name = "Finland" -> "FIN"
      [] name \in {"Cyprus", "Cyprus, Northern"} -> "CYP"
      [] OTHER -> name

RECURSIVE SumOf(_, _)
SumOf(f, S) ==
    IF S = {} THEN 0
    ELSE LET x == CHOOSE x \in S : TRUE IN f[x] + SumOf(f, S \ {x})

\* latest_cases_per_country on the rows of the latest date: the names are
\* adjusted and the Confirmed of equal names summed
latest_cases_per_country(cases_df) ==
    [c \in {Replace(n) : n \in DOMAIN cases_df} |->
        SumOf(cases_df, {n \in DOMAIN cases_df : Replace(n) = c})]

\* a left join that loses the countries without a risk entry
MergeLeft(distribution_df, latest_cases_df) ==
    LET keys == SelectSeq(NameOrder, LAMBDA n : n \in DOMAIN distribution_df)
    IN  [i \in 1..Len(keys) |->
            [Country |-> keys[i],
             Risk |-> distribution_df[keys[i]],
             Confirmed |-> IF keys[i] \in DOMAIN latest_cases_df
                           THEN latest_cases_df[keys[i]] ELSE NaN]]

\* pd.merge(..., on='Country', how='outer')
Merge(distribution_df, latest_cases_df) ==
    LET keys == SelectSeq(NameOrder, LAMBDA n :
                    n \in DOMAIN distribution_df \cup DOMAIN latest_cases_df)
    IN  [i \in 1..Len(keys) |->
            [Country |-> keys[i],
             Risk |-> IF keys[i] \in DOMAIN distribution_df
                      THEN distribution_df[keys[i]] ELSE NaN,
             Confirmed |-> IF keys[i] \in DOMAIN latest_cases_df
                           THEN latest_cases_df[keys[i]] ELSE NaN]]

\* fillna(0) of Confirmed and fillna(1) of Risk
FillNa(df) ==
    [i \in 1..Len(df) |->
        [df[i] EXCEPT !.Risk = IF @ = NaN THEN RiskOne ELSE @,
                      !.Confirmed = IF @ = NaN THEN 0 ELSE @]]

correct_names_dict(cn) ==
    CASE cn = "North Ireland" -> "UK"
      [] cn = "Aland Islands" -> "Finland"
      [] OTHER -> cn

correct_codes_dict(cc) ==
    CASE cc = "UK" -> "GBR"
      [] cc = "XKX" -> "KOS"
      [] cc = "North Ireland" -> "UK"
      [] cc = "ALA" -> "FIN"
      [] OTHER -> cc

assign_country_codes(df) ==
    [i \in 1..Len(df) |->
        LET name == correct_names_dict(df[i].Country)
        IN  [Country |-> name, Risk |-> df[i].Risk, Confirmed |-> df[i].Confirmed,
             Country_ISO3 |-> correct_codes_dict(coco_convert(name))]]

\* the repetition removal: of the rows of a code that occurs more than once
\* and whose largest Risk is 1.0, all but the last are dropped
RemoveRepetitions(df) ==
    LET group(i) == {j \in 1..Len(df) : df[j].Country_ISO3 = df[i].Country_ISO3}
        dropped(i) ==
            /\ Cardinality(group(i)) > 1
            /\ \E j \in group(i) : df[j].Risk = RiskOne
            /\ \A j \in group(i) : df[j].Risk <= RiskOne
            /\ \E j \in group(i) : j > i
        kept == {i \in 1..Len(df) : ~dropped(i)}
        RECURSIVE Pick(_)
        Pick(i) == IF i > Len(df) THEN <<>>
                   ELSE IF i \in kept THEN <<df[i]>> \o Pick(i + 1) ELSE Pick(i + 1)
    IN  Pick(1)

\* the bins and labels of the per-million ratio
bins == <<0, 2, 5, 10, 50, 100, 400, 5000>>

labels == <<"0-2", "2-5", "5-10", "10-50", "50-100", "100-400", ">400">>

\* a cut with intervals closed on the left: pd.cut(..., right=False)
CutLeftClosed(per_mil) ==
    IF per_mil = <<NaN, NaN>> THEN "nan"
    ELSE LET hit == {i \in 1..Len(labels) :
                        /\ bins[i] * per_mil[2] <= per_mil[1]
                        /\ per_mil[1] < bins[i + 1] * per_mil[2]}
         IN  IF hit = {} THEN "nan" ELSE labels[CHOOSE i \in hit : TRUE]

\* pd.cut(per_mil, bins=bins, labels=labels).astype(str): the intervals are
\* open on the left and closed on the right, a value in none gives 'nan'
Cut(per_mil) ==
    IF per_mil = <<NaN, NaN>> THEN "nan"
    ELSE LET hit == {i \in 1..Len(labels) :
                        /\ bins[i] * per_mil[2] < per_mil[1]
                        /\ per_mil[1] <= bins[i + 1] * per_mil[2]}
         IN  IF hit = {} THEN "nan" ELSE labels[CHOOSE i \in hit : TRUE]

\* the left merge with the population sheet, per_mil and its bin
RatioBins(df) ==
    [i \in 1..Len(df) |->
        LET pop == IF df[i].Country_ISO3 \in DOMAIN population_df
                   THEN population_df[df[i].Country_ISO3] ELSE NaN
            per_mil == IF pop = NaN THEN <<NaN, NaN>>
                       ELSE <<df[i].Confirmed * 1000, pop \div 1000>>
        IN  [Country |-> df[i].Country, Risk |-> df[i].Risk,
             Confirmed |-> df[i].Confirmed, Country_ISO3 |-> df[i].Country_ISO3,
             Population |-> pop, per_mil |-> per_mil, bin |-> Cut(per_mil)]]

SetMax(S) == CHOOSE x \in S : \A y \in S : y <= x

SetMin(S) == CHOOSE x \in S : \A y \in S : x <= y

\* bin_risk with bins = [min_risk + risk_step, min_risk + 2 * risk_step] and
\* risk_step = (max_risk - min_risk) / 3, every term multiplied by 3
bin_risk(row, min_risk, max_risk) ==
    IF row.Risk # RiskOne
    THEN IF 3 * row.Risk < 3 * min_risk + (max_risk - min_risk)
         THEN "0, Low risk"
         ELSE IF 3 * row.Risk < 3 * min_risk + 2 * (max_risk - min_risk)
              THEN "0, Medium risk"
              ELSE "0, High risk"
    ELSE row.bin

adds_bin_col(df) ==
    LET below == {df[i].Risk : i \in {j \in 1..Len(df) : df[j].Risk < RiskOne}}
    IN  [i \in 1..Len(df) |->
            IF below = {} THEN df[i]
            ELSE [df[i] EXCEPT !.bin = bin_risk(df[i], SetMin(below), SetMax(below))]]

\* query_epirisk, with the data frame after each of its steps
QueryEpirisk ==
    LET merged == FillNa(Merge(dist, latest_cases_per_country(latest)))
        coded == assign_country_codes(merged)
        deduped == RemoveRepetitions(coded)
        ratio == RatioBins(deduped)
    IN  [done |-> TRUE, merged |-> merged, coded |-> coded, deduped |-> deduped,
         ratio |-> ratio, risk_cases_ratio_df |-> adds_bin_col(ratio)]

query_epirisk ==
    /\ ~table.done
    /\ table' = QueryEpirisk
    /\ UNCHANGED <<geolevel, mute, cases, last, names, applied, series, dist, latest,
                 bulk, response, parsed, api_write, spreadsheet>>

PartialFunctions(D, R, n) ==
    UNION {[S -> R] : S \in {T \in SUBSET D : Cardinality(T) <= n}}

InitJoin ==
    /\ dist \in PartialFunctions(DistLabels, Risks, MaxDistRows)
    /\ latest \in PartialFunctions(CaseNames, ConfirmedCounts, MaxCaseRows)
    /\ table = NoTable
    /\ geolevel = "country" /\ mute = TRUE /\ cases = <<>> /\ last = NoCall
    /\ names = <<>> /\ applied = 0 /\ series = <<>>
    /\ IdleBulk /\ IdleParse /\ IdleSheets

NextJoin == query_epirisk

SpecJoin == InitJoin /\ [][NextJoin]_vars

(***************************************************************************)
(* Properties of EpiriskQuery                                              *)
(***************************************************************************)
\* whether a key resolves in the query's table, and the id it resolves to
Known(key) == ~IsStr(key) \/ key.label \in DOMAIN locations[geolevel]

KeyId(key) ==
    IF ~IsStr(key) THEN key.id
    ELSE IF key.label \in DOMAIN locations[geolevel]
         THEN locations[geolevel][key.label] ELSE -1

NonCountries == {53, 4}

\* C1: the case map never holds a count of 0: a set of 0 leaves the key
\* absent, and a get of an absent key returns 0 and raises nothing.
C1_NoZeroCount ==
    /\ \A i \in 1..Len(cases) : cases[i][2] # 0
    /\ (last.op = "set" /\ last.value = 0 /\ Known(last.key))
          => (last.raised = None /\ ~Has(cases, KeyId(last.key)))
    /\ last.op = "get"
          => /\ last.raised = None
             /\ ~Has(cases, KeyId(last.key)) => last.ret = 0
             /\ Has(cases, KeyId(last.key)) => last.ret = Get(cases, KeyId(last.key), 0)

\* a set of 0 has just removed a key that an earlier set had put
C1_Witness ==
    /\ last.op = "set" /\ last.value = 0 /\ last.changed
    /\ ~Has(cases, KeyId(last.key))

\* C2: a set with a negative count raises InvalidCaseCountError and leaves
\* the case map as it was, so the case map never holds a negative count.
C2_NegativeRejected ==
    /\ \A i \in 1..Len(cases) : cases[i][2] >= 0
    /\ (last.op = "set" /\ last.value < 0 /\ Known(last.key))
          => (last.raised = "InvalidCaseCountError" /\ ~last.changed)

\* the position-based rank of an entry: how many entries beat it, an entry
\* of equal count beating it when it comes later in the case map
Beats(d, j, i) == d[j][2] > d[i][2] \/ (d[j][2] = d[i][2] /\ j > i)

KeptKeys(d) ==
    {d[i][1] : i \in {i \in 1..Len(d) :
        Cardinality({j \in 1..Len(d) : Beats(d, j, i)}) < KEEP_TOP_CASES_COUNT}}

\* C3 as stated: of more than N entries the request keeps N entries of the
\* highest counts, each with its original count, and drops the others (the
\* forced entries of count 0 aside).
C3_KeepsTopNOriginal ==
    (last.op = "build" /\ Len(cases) > KEEP_TOP_CASES_COUNT) =>
        \E K \in SUBSET Keys(cases) :
            /\ Cardinality(K) = KEEP_TOP_CASES_COUNT
            /\ \A k \in K, j \in Keys(cases) \ K : Get(cases, k, 0) >= Get(cases, j, 0)
            /\ \A k \in K : /\ Has(last.ret.cases, k)
                             /\ Get(last.ret.cases, k, 0) = Get(cases, k, 0)
            /\ \A j \in Keys(last.ret.cases) \ K :
                   j \in NonCountries /\ Get(last.ret.cases, j, 0) = 0

\* C3 amended: of more than N entries the request keeps exactly the N
\* entries of the highest counts, among equal counts the ones latest in the
\* case map, and drops the others; a kept entry has its original count
\* unless its id is 53 or 4, which the request always holds with count 0.
C3_KeepsTopN ==
    (last.op = "build" /\ Len(cases) > KEEP_TOP_CASES_COUNT) =>
        LET K == KeptKeys(cases)
        IN  /\ Cardinality(K) = KEEP_TOP_CASES_COUNT
            /\ \A k \in K, j \in Keys(cases) \ K : Get(cases, k, 0) >= Get(cases, j, 0)
            /\ Keys(last.ret.cases) = K \cup NonCountries
            /\ \A k \in K \ NonCountries :
                   Get(last.ret.cases, k, 0) = Get(cases, k, 0)
            /\ \A k \in NonCountries : Get(last.ret.cases, k, 1) = 0
            /\ Len(last.ret.cases) = Cardinality(Keys(last.ret.cases))

\* a build has truncated a case map with a tie at the cut-off and with
\* Northern Cyprus among the kept entries
C3_Witness ==
    /\ last.op = "build" /\ Len(cases) = KEEP_TOP_CASES_COUNT + 2
    /\ 53 \in KeptKeys(cases)
    /\ \E i, j \in 1..Len(cases) :
          /\ cases[i][2] = cases[j][2]
          /\ cases[i][1] \in KeptKeys(cases) /\ cases[j][1] \notin KeptKeys(cases)

\* C4: every built request holds the ids 53 and 4 in its cases with count 0.
C4_NonCountriesZero ==
    last.op = "build" =>
        \A k \in NonCountries :
            Has(last.ret.cases, k) /\ Get(last.ret.cases, k, 1) = 0

\* a build of a truncated case map in which Northern Cyprus has cases
C4_Witness ==
    /\ last.op = "build" /\ Len(cases) > KEEP_TOP_CASES_COUNT
    /\ Get(cases, 53, 0) > 0

\* C10: a set with a label that is not in the table of the query's geolevel
\* leaves the case map as it was; it returns normally in mute mode and
\* raises KeyError otherwise. A set that resolves stores its count.
C10_UnknownLabelSkipped ==
    /\ (last.op = "set" /\ ~Known(last.key))
          => /\ ~last.changed
             /\ last.raised = (IF mute THEN None ELSE "KeyError")
    /\ (last.op = "set" /\ Known(last.key) /\ last.value # 0)
          => Get(cases, KeyId(last.key), 0) = last.value

\* a muted query with cases has just skipped a label of the other table
C10_Witness ==
    /\ mute /\ last.op = "set" /\ ~Known(last.key) /\ last.value > 0
    /\ last.key.label \in DOMAIN countries \cup DOMAIN cities
    /\ cases # <<>>

\* C14: the geolevel of a built request is the geolevel of the query.
C14_RequestGeolevel ==
    last.op = "build" => last.ret.geolevel = geolevel

\* C17: build_query leaves the case map as it was: the counts a get returns
\* are the ones from before, no count of the case map is 0, and a second
\* build right after returns an equal request.
C17_BuildKeepsCases ==
    last.op = "build" =>
        /\ ~last.changed
        /\ \A i \in 1..Len(cases) : cases[i][2] # 0
        /\ \A key \in QueryKeys : GetItemRet(key) = Get(cases, KeyId(key), 0)
        /\ BuildQuery = last.ret

\* a build has truncated a case map that holds no non-country
C17_Witness ==
    /\ last.op = "build" /\ Len(cases) > KEEP_TOP_CASES_COUNT
    /\ Keys(cases) \cap NonCountries = {}
    /\ Len(last.ret.cases) = KEEP_TOP_CASES_COUNT + 2

RECURSIVE SumRows(_, _, _)
SumRows(rows, n, country) ==
    IF n = 0 THEN 0
    ELSE SumRows(rows, n - 1, country)
         + (IF rows[n][1] = country THEN rows[n][2] ELSE 0)

\* C11: while from_cases runs and when it has returned, the count of every
\* country of the registry is the sum of the counts of the rows added so
\* far that name it, and the case map holds nothing else.
C11_Accumulates ==
    bulk.status \in {"run", "done"} =>
        /\ \A l \in DOMAIN countries :
              Get(cases, countries[l], 0) = SumRows(bulk.rows, bulk.i, l)
        /\ Keys(cases) \subseteq {countries[l] : l \in DOMAIN countries}
        /\ bulk.status = "done" => bulk.i = Len(bulk.rows)

\* from_cases has returned a query of rows that name China more than once,
\* Italy in between
C11_Witness ==
    /\ bulk.status = "done" /\ Len(bulk.rows) = 3
    /\ bulk.rows[1] = <<"China", 1>> /\ bulk.rows[2][1] = "Italy"
    /\ bulk.rows[2][2] > 0 /\ bulk.rows[3] = <<"China", 2>>
    /\ Get(cases, 44, 0) = 3

(***************************************************************************)
(* Properties of adjust_country_names                                      *)
(***************************************************************************)
\* C9: however often adjust_country_names is applied, the Series is the one
\* a single application gives: no override target is overridden again, and
\* a name without an override stays as it is.
C9_AdjustIdempotent ==
    applied >= 1 =>
        /\ Len(series) = Len(names)
        /\ \A i \in 1..Len(names) :
              /\ names[i] \in DOMAIN mapping => series[i] = mapping[names[i]]
              /\ names[i] \notin DOMAIN mapping => series[i] = names[i]

\* applied twice to a Series with an overridden name and an override target
C9_Witness ==
    /\ applied = 2
    /\ \E i, j \in 1..Len(names) :
          /\ names[i] \in DOMAIN mapping /\ series[i] # names[i]
          /\ names[j] \in {mapping[n] : n \in DOMAIN mapping}

(***************************************************************************)
(* Properties of query_epirisk                                             *)
(***************************************************************************)
Rows(df) == {df[i] : i \in 1..Len(df)}

RECURSIVE SumRisk(_)
SumRisk(S) ==
    IF S = {} THEN 0
    ELSE LET r == CHOOSE r \in S : TRUE IN r.Risk + SumRisk(S \ {r})

\* C5: in the table query_epirisk returns, a row has Confirmed > 0 exactly
\* when its Risk is 1.0, and the Risks of the rows with Confirmed = 0 sum to
\* 1.0.
C5_RiskNormalized ==
    table.done =>
        LET rows == Rows(table.risk_cases_ratio_df)
            zero == {r \in rows : r.Confirmed = 0}
        IN  /\ \A r \in rows : (r.Confirmed > 0) <=> (r.Risk = RiskOne)
            /\ zero # {} => SumRisk(zero) = RiskOne

RatioLabels == {labels[i] : i \in 1..Len(labels)}

RiskLabels == {"0, Low risk", "0, Medium risk", "0, High risk"}

\* C7: in the table query_epirisk returns, a row with Confirmed > 0 has a
\* ratio bin label and a row with Confirmed = 0 has a risk tier label.
C7_BinKindByConfirmed ==
    table.done =>
        \A r \in Rows(table.risk_cases_ratio_df) :
            /\ r.Confirmed > 0 => r.bin \in RatioLabels
            /\ r.Confirmed = 0 => r.bin \in RiskLabels

\* C8: a per-million ratio equal to a boundary 2, 5, 10, 50, 100 or 400 is
\* put into the bin that ends at the boundary (2 into "0-2"), in the cut and
\* in the returned table where the row keeps its ratio bin.
C8_BoundaryBins ==
    table.done =>
        \A i \in 2..Len(labels) :
            /\ \A r \in Rows(table.ratio) :
                  (r.Population # NaN /\ r.per_mil[1] = bins[i] * r.per_mil[2])
                      => r.bin = labels[i - 1]
            /\ \A r \in Rows(table.risk_cases_ratio_df) :
                  (r.Population # NaN /\ r.per_mil[1] = bins[i] * r.per_mil[2]
                      /\ r.Risk = RiskOne)
                      => r.bin = labels[i - 1]

\* the returned table has a row of ratio exactly 2 and one of ratio exactly 5
C8_Witness ==
    /\ table.done
    /\ \E r, q \in Rows(table.risk_cases_ratio_df) :
          /\ r.Population # NaN /\ r.per_mil[1] = 2 * r.per_mil[2] /\ r.bin = "0-2"
          /\ q.Population # NaN /\ q.per_mil[1] = 5 * q.per_mil[2] /\ q.bin = "2-5"

\* C16: after the repetition removal every ISO3 code is on at most one row.
C16_NoRepeatedCode ==
    table.done =>
        \A i, j \in 1..Len(table.deduped) :
            table.deduped[i].Country_ISO3 = table.deduped[j].Country_ISO3 => i = j

(***************************************************************************)
(* Properties of ConnectionsRisk                                           *)
(***************************************************************************)
\* a required key is absent, or a key or a value is no number
Malformed(json) ==
    \/ json.keys # {"connections", "distribution", "residual"}
    \/ \E k \in (DOMAIN json.connections) \cup (DOMAIN json.distribution) : ~k.int
    \/ \E k \in DOMAIN json.distribution : ~json.distribution[k].num
    \/ ~json.residual.num

\* C12: parsing a malformed response fails, and a failed parsing returns no
\* object.
C12_MalformedRejected ==
    parsed.done =>
        /\ Malformed(response) => parsed.raised # None
        /\ parsed.raised # None => ~parsed.built

\* every id of the response is in the registry
IdsInRegistry(json) ==
    /\ \A k \in (DOMAIN json.connections) \cup (DOMAIN json.distribution) :
          k.int /\ k.v \in DOMAIN countries_by_id
    /\ \A k \in DOMAIN json.connections :
          Range(json.connections[k]) \subseteq DOMAIN countries_by_id

\* C13: of a parsed response whose ids are all in the registry,
\* distribution_df has exactly the rows (id, label, risk) of the response's
\* distribution entries and connections_df exactly the rows (source, label,
\* destination, label) of its source-destination pairs, each once.
C13_RoundTrip ==
    (parsed.done /\ parsed.raised = None /\ IdsInRegistry(response)) =>
        LET entries == {<<k.v, countries_by_id[k.v], response.distribution[k]>> :
                           k \in DOMAIN response.distribution}
            pairs == UNION {{<<k.v, countries_by_id[k.v], d, countries_by_id[d]>> :
                               d \in Range(response.connections[k])} :
                           k \in DOMAIN response.connections}
        IN  /\ parsed.distribution_df.raised = None
            /\ Range(parsed.distribution_df.rows) = entries
            /\ Len(parsed.distribution_df.rows) = Cardinality(entries)
            /\ parsed.connections_df.raised = None
            /\ Range(parsed.connections_df.rows) = pairs
            /\ Len(parsed.connections_df.rows) = Cardinality(pairs)
            /\ parsed.risks.residual = response.residual

\* a parsed response with two distribution entries and a source of two
\* destinations
C13_Witness ==
    /\ parsed.done /\ parsed.raised = None /\ IdsInRegistry(response)
    /\ Len(parsed.distribution_df.rows) = 2
    /\ Len(parsed.connections_df.rows) = 2
    /\ 44 \in DOMAIN parsed.risks.connections

(***************************************************************************)
(* Properties of SpreadsheetsHandler                                       *)
(***************************************************************************)
\* C15: a handler made with api_write=False executes no write action on the
\* remote spreadsheet: it clears no worksheet, updates no cells and creates
\* no worksheet.
C15_NoWriteWhenDisabled ==
    ~api_write => /\ spreadsheet.writes = {}
                  /\ Len(spreadsheet.worksheets) = 1
====
